---------------------------- MODULE Spec2Model ----------------------------
(***************************************************************************)
(* Vietnam personal income tax calculator (hieudoanm/tax).                 *)
(*                                                                         *)
(* Two programs carry the calculation: the terminal wizard                 *)
(* (packages/cli/ui/tui.go) and the browser page                           *)
(* (packages/app/src/pages/index.tsx).  Both compute on IEEE-754 binary64  *)
(* numbers (Go float64, JavaScript number), so the model carries binary64  *)
(* values and rounds every operation to nearest, ties to even, as the      *)
(* hardware does.  A binary64 value is a record [s, m, e] standing for     *)
(* s * m * 2^e, with m a 53-bit natural number kept as a sequence of       *)
(* 15-bit limbs (least significant first); zero has the empty mantissa.    *)
(* Each operation is rounded on its own, as JavaScript and the amd64 build *)
(* of the wizard do (no fused multiply-add).  Signed zeros, subnormals and *)
(* NaN do not occur in the ranges explored.                                *)
(***************************************************************************)
EXTENDS Integers, Sequences, FiniteSets, TLC

(***************************************************************************)
(* x := v; F(x).  The bound x holds the value of v, so that F, however     *)
(* often it reads x, computes v once: this is the assignment of the        *)
(* programs, which the definitions below use wherever the code assigns.    *)
(***************************************************************************)
Let(v, F(_)) == CHOOSE r \in {F(x) : x \in {v}} : TRUE

(***************************************************************************)
(* Natural numbers of any size: sequences of limbs, least significant      *)
(* first, no leading zero limb.                                            *)
(***************************************************************************)
LimbBits == 15

Radix == 2^LimbBits

MantBits == 53

Limbs == Seq(0..(Radix - 1))

NNorm[a \in Limbs] ==
  IF a = <<>> THEN <<>>
  ELSE IF a[Len(a)] = 0 THEN NNorm[SubSeq(a, 1, Len(a) - 1)] ELSE a

NFromInt[n \in Nat] ==
  IF n = 0 THEN <<>> ELSE <<n % Radix>> \o NFromInt[n \div Radix]

\* the limbs of a + b + c from limb i on
NAddC[a \in Limbs, b \in Limbs, i \in Nat, c \in 0..1] ==
  IF i > Len(a) /\ i > Len(b) THEN (IF c = 0 THEN <<>> ELSE <<c>>)
  ELSE LET t == (IF i > Len(a) THEN 0 ELSE a[i])
                + (IF i > Len(b) THEN 0 ELSE b[i]) + c
       IN  <<t % Radix>> \o NAddC[a, b, i + 1, t \div Radix]

NAdd[a \in Limbs, b \in Limbs] == NAddC[a, b, 1, 0]

NSubB[a \in Limbs, b \in Limbs, i \in Nat, c \in 0..1] ==
  IF i > Len(a) THEN <<>>
  ELSE LET t == a[i] - (IF i > Len(b) THEN 0 ELSE b[i]) - c
       IN  <<t % Radix>> \o NSubB[a, b, i + 1, IF t < 0 THEN 1 ELSE 0]

\* a - b for a >= b
NSub[a \in Limbs, b \in Limbs] == NNorm[NSubB[a, b, 1, 0]]

NCmpAt[a \in Limbs, b \in Limbs, i \in Nat] ==
  IF i = 0 THEN 0
  ELSE IF a[i] > b[i] THEN 1
  ELSE IF a[i] < b[i] THEN -1
  ELSE NCmpAt[a, b, i - 1]

\* -1, 0, 1 as a < b, a = b, a > b
NCmp[a \in Limbs, b \in Limbs] ==
  IF Len(a) > Len(b) THEN 1
  ELSE IF Len(a) < Len(b) THEN -1
  ELSE NCmpAt[a, b, Len(a)]

NMulSmallC[a \in Limbs, k \in Nat, i \in Nat, c \in Nat] ==
  IF i > Len(a) THEN (IF c = 0 THEN <<>> ELSE <<c>>)
  ELSE LET t == a[i] * k + c
       IN  <<t % Radix>> \o NMulSmallC[a, k, i + 1, t \div Radix]

\* a * k for 0 <= k <= Radix
NMulSmall[a \in Limbs, k \in Nat] ==
  IF k = 0 THEN <<>> ELSE NMulSmallC[a, k, 1, 0]

NShiftLimbs[a \in Limbs, k \in Nat] ==
  IF a = <<>> THEN <<>> ELSE [i \in 1..k |-> 0] \o a

\* a times the limbs of b from limb i on
NMulFrom[a \in Limbs, b \in Limbs, i \in Nat] ==
  IF i > Len(b) \/ a = <<>> THEN <<>>
  ELSE NAdd[NMulSmall[a, b[i]], NShiftLimbs[NMulFrom[a, b, i + 1], 1]]

NMul[a \in Limbs, b \in Limbs] == NMulFrom[a, b, 1]

\* long division of the limbs i..1 of a by d, r the remainder so far and q
\* the quotient's limbs below those already divided
NDivStep[a \in Limbs, d \in Nat, i \in Nat, r \in Nat, q \in Limbs] ==
  IF i = 0 THEN [q |-> NNorm[q], r |-> r]
  ELSE NDivStep[a, d, i - 1, (r * Radix + a[i]) % d,
                <<(r * Radix + a[i]) \div d>> \o q]

\* quotient and remainder of a by d, 0 < d < Radix
NDivSmall[a \in Limbs, d \in Nat] == NDivStep[a, d, Len(a), 0, <<>>]

\* a * 2^n
NShl[a \in Limbs, n \in Nat] ==
  NShiftLimbs[NMulSmall[a, 2^(n % LimbBits)], n \div LimbBits]

\* a \div 2^n
NShr[a \in Limbs, n \in Nat] ==
  IF n \div LimbBits >= Len(a) THEN <<>>
  ELSE NDivSmall[SubSeq(a, n \div LimbBits + 1, Len(a)), 2^(n % LimbBits)].q

NBitLen[a \in Limbs] ==
  IF a = <<>> THEN 0
  ELSE LimbBits * (Len(a) - 1)
       + (CHOOSE k \in 1..LimbBits : 2^(k-1) <= a[Len(a)] /\ a[Len(a)] < 2^k)

NOdd(a) == a # <<>> /\ a[1] % 2 = 1

\* n quotient bits of r / d for r < d: q the bits so far
NDivBits[r \in Limbs, d \in Limbs, q \in Limbs, n \in Nat] ==
  IF n = 0 THEN [q |-> q, r |-> r]
  ELSE IF NCmp[NMulSmall[r, 2], d] >= 0
       THEN NDivBits[NSub[NMulSmall[r, 2], d], d, NAdd[NMulSmall[q, 2], <<1>>], n - 1]
       ELSE NDivBits[NMulSmall[r, 2], d, NMulSmall[q, 2], n - 1]

(***************************************************************************)
(* binary64 values and their correctly rounded operations.                 *)
(***************************************************************************)
Floats == [s : {-1, 1}, m : Limbs, e : Int]

Zero == [s |-> 1, m |-> <<>>, e |-> 0]

IsZero(x) == x.m = <<>>

\* q * 2^e with q of 53 bits, or of 54 after the rounding carried
F64Pack[s \in {-1, 1}, q \in Limbs, e \in Int] ==
  IF NBitLen[q] > MantBits
  THEN [s |-> s, m |-> NShr[q, 1], e |-> e + 1]
  ELSE [s |-> s, m |-> q, e |-> e]

\* top holds the 54 leading bits of M, cut sh - 1 bits above its end: the
\* 53 bits of the result and the rounding bit
F64RoundTop[s \in {-1, 1}, M \in Limbs, e \in Int, sticky \in BOOLEAN, sh \in Nat, top \in Limbs] ==
  IF NOdd(top) /\ (sticky \/ NShl[top, sh - 1] # M \/ NOdd(NShr[top, 1]))
  THEN F64Pack[s, NAdd[NShr[top, 1], <<1>>], e + sh]
  ELSE F64Pack[s, NShr[top, 1], e + sh]

F64RoundLen[s \in {-1, 1}, M \in Limbs, e \in Int, sticky \in BOOLEAN, L \in Nat] ==
  IF L <= MantBits
  THEN [s |-> s, m |-> NShl[M, MantBits - L], e |-> e - (MantBits - L)]
  ELSE F64RoundTop[s, M, e, sticky, L - MantBits, NShr[M, L - MantBits - 1]]

\* s * M * 2^e (and something below the last bit of M when sticky) rounded
\* to 53 bits, to nearest, ties to even
F64Round[s \in {-1, 1}, M \in Limbs, e \in Int, sticky \in BOOLEAN] ==
  IF M = <<>> THEN Zero ELSE F64RoundLen[s, M, e, sticky, NBitLen[M]]

F64Neg[x \in Floats] == IF IsZero(x) THEN x ELSE [x EXCEPT !.s = -x.s]

\* X * 2^e + Y * 2^e with the signs sx and sy
F64AddAligned[sx \in {-1, 1}, X \in Limbs, sy \in {-1, 1}, Y \in Limbs, e \in Int] ==
  IF sx = sy THEN F64Round[sx, NAdd[X, Y], e, FALSE]
  ELSE IF NCmp[X, Y] = 0 THEN Zero
  ELSE IF NCmp[X, Y] > 0 THEN F64Round[sx, NSub[X, Y], e, FALSE]
  ELSE F64Round[sy, NSub[Y, X], e, FALSE]

F64Add[x \in Floats, y \in Floats] ==
  IF IsZero(x) THEN y
  ELSE IF IsZero(y) THEN x
  ELSE IF x.e < y.e
       THEN F64AddAligned[x.s, x.m, y.s, NShl[y.m, y.e - x.e], x.e]
       ELSE F64AddAligned[x.s, NShl[x.m, x.e - y.e], y.s, y.m, y.e]

F64Sub[x \in Floats, y \in Floats] == F64Add[x, F64Neg[y]]

F64Mul[x \in Floats, y \in Floats] ==
  IF IsZero(x) \/ IsZero(y) THEN Zero
  ELSE F64Round[x.s * y.s, NMul[x.m, y.m], x.e + y.e, FALSE]

\* x / d for an integer 0 < d < Radix
F64DivInt[x \in Floats, d \in Nat] ==
  IF IsZero(x) THEN Zero
  ELSE Let(NDivSmall[NShl[x.m, 2 * LimbBits], d],
           LAMBDA qr : F64Round[x.s, qr.q, x.e - 2 * LimbBits, qr.r # 0])

\* x / y, y not zero: 56 quotient bits by long division, then rounding
F64Div[x \in Floats, y \in Floats] ==
  IF IsZero(x) THEN Zero
  ELSE Let(IF NCmp[x.m, y.m] >= 0
           THEN NDivBits[NSub[x.m, y.m], y.m, <<1>>, MantBits + 3]
           ELSE NDivBits[x.m, y.m, <<>>, MantBits + 3],
           LAMBDA qr : F64Round[x.s * y.s, qr.q, x.e - y.e - (MantBits + 3), qr.r # <<>>])

Sign(x) == IF IsZero(x) THEN 0 ELSE x.s

\* -1, 0, 1 as x < y, x = y, x > y
F64Cmp[x \in Floats, y \in Floats] ==
  IF Sign(x) # Sign(y) THEN (IF Sign(x) < Sign(y) THEN -1 ELSE 1)
  ELSE IF Sign(x) = 0 THEN 0
  ELSE IF x.e # y.e THEN (IF x.e < y.e THEN -x.s ELSE x.s)
  ELSE x.s * NCmp[x.m, y.m]

F64Lt(x, y) == F64Cmp[x, y] < 0

F64Le(x, y) == F64Cmp[x, y] <= 0

\* the binary64 value of an integer, -2^31 < n < 2^31
F64[n \in Int] ==
  IF n = 0 THEN Zero
  ELSE IF n < 0 THEN F64Round[-1, NFromInt[-n], 0, FALSE]
  ELSE F64Round[1, NFromInt[n], 0, FALSE]

\* the binary64 value of the decimal literal n / d
F64Lit[n \in Int, d \in Nat] == F64DivInt[F64[n], d]

\* +Infinity, kept as a value above every finite binary64 number
Infinity == [s |-> 1, m |-> NShl[<<1>>, MantBits - 1], e |-> 1024 - (MantBits - 1)]

(***************************************************************************)
(* DOMAIN TYPES AND CONSTANTS (tui.go)                                     *)
(***************************************************************************)
Monthly == "monthly"

Annual == "annual"

Gross == "gross"

Net == "net"

PersonalDeduction == 11000000

DependentDeduction == 4400000

InsuranceCap == 36000000

EmployeeInsurance ==
  [BHXH |-> F64Lit[8, 100], BHYT |-> F64Lit[15, 1000], BHTN |-> F64Lit[1, 100]]

EmployerInsurance ==
  [BHXH |-> F64Lit[175, 1000], BHYT |-> F64Lit[3, 100], BHTN |-> F64Lit[1, 100]]

\* 1e18
E18 == F64Mul[F64[1000000000], F64[1000000000]]

TaxBrackets ==
  << [Limit |-> F64[5000000],  Rate |-> F64Lit[5, 100]],
     [Limit |-> F64[5000000],  Rate |-> F64Lit[10, 100]],
     [Limit |-> F64[8000000],  Rate |-> F64Lit[15, 100]],
     [Limit |-> F64[14000000], Rate |-> F64Lit[20, 100]],
     [Limit |-> F64[20000000], Rate |-> F64Lit[25, 100]],
     [Limit |-> F64[28000000], Rate |-> F64Lit[30, 100]],
     [Limit |-> E18,           Rate |-> F64Lit[35, 100]] >>

(***************************************************************************)
(* PURE LOGIC (tui.go)                                                     *)
(***************************************************************************)
toMonthly(v, p) == IF p = Annual THEN F64DivInt[v, 12] ELSE v

\* Go ranges over a map in an unspecified order: ord is the order in which
\* this call visits the keys, s the sum before key i.
RECURSIVE sumRatesFrom(_, _, _, _)
sumRatesFrom(r, ord, i, s) ==
  IF i > Len(ord) THEN s
  ELSE Let(F64Add[s, r[ord[i]]], LAMBDA s1 : sumRatesFrom(r, ord, i + 1, s1))

\* sumRates with the first key visited left out
sumRates_skipFirst(r, ord) == sumRatesFrom(r, ord, 2, Zero)

sumRates(r, ord) == sumRatesFrom(r, ord, 1, Zero)

\* clampInsuranceBase without the test against InsuranceCap
clampInsuranceBase_noCap(gross, enabled) == IF ~enabled THEN Zero ELSE gross

clampInsuranceBase(gross, enabled) ==
  IF ~enabled THEN Zero
  ELSE IF F64Lt(F64[InsuranceCap], gross) THEN F64[InsuranceCap]
  ELSE gross

min(a, b) == IF F64Lt(a, b) THEN a ELSE b

max(a, b) == IF F64Lt(b, a) THEN a ELSE b

\* the loop body without remain -= apply
calculateTaxBody_keepRemain(st, b) ==
  Let(min(b.Limit, st.remain), LAMBDA apply :
  Let(F64Mul[apply, b.Rate], LAMBDA tax :
    [out    |-> Append(st.out, [Rate |-> b.Rate, Taxable |-> apply, Tax |-> tax]),
     total  |-> F64Add[st.total, tax],
     remain |-> st.remain]))

\* the loop body with total = tax for total += tax
calculateTaxBody_lastTax(st, b) ==
  Let(min(b.Limit, st.remain), LAMBDA apply :
  Let(F64Mul[apply, b.Rate], LAMBDA tax :
    [out    |-> Append(st.out, [Rate |-> b.Rate, Taxable |-> apply, Tax |-> tax]),
     total  |-> tax,
     remain |-> F64Sub[st.remain, apply]]))

\* one pass of the body of calculateTax's loop, for the bracket b: st holds
\* out, total and remain
calculateTaxBody(st, b) ==
  Let(min(b.Limit, st.remain), LAMBDA apply :
  Let(F64Mul[apply, b.Rate], LAMBDA tax :
    [out    |-> Append(st.out, [Rate |-> b.Rate, Taxable |-> apply, Tax |-> tax]),
     total  |-> F64Add[st.total, tax],
     remain |-> F64Sub[st.remain, apply]]))

\* the loop of calculateTax from bracket i on
RECURSIVE calculateTaxLoop(_, _, _)
calculateTaxLoop(brackets, i, st) ==
  IF i > Len(brackets) \/ F64Le(st.remain, Zero) THEN st
  ELSE Let(calculateTaxBody(st, brackets[i]),
           LAMBDA st1 : calculateTaxLoop(brackets, i + 1, st1))

\* calculateTax testing remain only after the first bracket
calculateTax_testAfter(taxable) ==
  calculateTaxLoop(TaxBrackets, 2,
    calculateTaxBody([out |-> <<>>, total |-> Zero, remain |-> taxable], TaxBrackets[1]))

\* out and total are what calculateTax returns; remain is its local variable
\* as the loop left it
calculateTax(taxable) ==
  calculateTaxLoop(TaxBrackets, 1, [out |-> <<>>, total |-> Zero, remain |-> taxable])

\* the number of corrections solveGrossFromNet makes
SolveIterations == 20

\* one pass of the body of solveGrossFromNet's loop: the next gross.  ord is
\* the key order of its sumRates call.
solveBody(gross, targetNet, dependents, insurance, ord) ==
  Let(clampInsuranceBase(gross, insurance), LAMBDA base :
  Let(F64Mul[base, sumRates(EmployeeInsurance, ord)], LAMBDA ins :
  Let(F64Add[F64Add[F64[PersonalDeduction],
                    F64Mul[F64[dependents], F64[DependentDeduction]]], ins],
      LAMBDA deductions :
  Let(max(Zero, F64Sub[gross, deductions]), LAMBDA taxable :
  Let(calculateTax(taxable).total, LAMBDA tax :
  Let(F64Sub[F64Sub[gross, ins], tax], LAMBDA net :
    F64Add[gross, F64Sub[targetNet, net]]))))))

\* ords[i] is the key order of the sumRates call of iteration i
RECURSIVE solveLoop(_, _, _, _, _, _)
solveLoop(gross, targetNet, dependents, insurance, ords, i) ==
  IF i > SolveIterations THEN gross
  ELSE Let(solveBody(gross, targetNet, dependents, insurance, ords[i]),
           LAMBDA next : solveLoop(next, targetNet, dependents, insurance, ords, i + 1))

\* solveGrossFromNet with ten corrections for twenty
solveGrossFromNet_ten(targetNet, dependents, insurance, ords) ==
  solveLoop(targetNet, targetNet, dependents, insurance, ords, SolveIterations \div 2 + 1)

solveGrossFromNet(targetNet, dependents, insurance, ords) ==
  solveLoop(targetNet, targetNet, dependents, insurance, ords, 1)

(***************************************************************************)
(* RESULT (tui.go).  resultView computes the figures it prints; the record *)
(* holds them, and target, the amount handed to solveGrossFromNet (None in *)
(* Gross mode).  ords[1..20] are the key orders of the sumRates calls of   *)
(* the solver and ords[21] that of resultView's own call.                  *)
(***************************************************************************)
None == "none"

resultView(m, ords) ==
  Let(IF m.mode = Gross
      THEN toMonthly(m.income, m.period)
      ELSE solveGrossFromNet(m.income, m.dependents, m.insurance, ords),
      LAMBDA gross :
  Let(clampInsuranceBase(gross, m.insurance), LAMBDA base :
  Let(F64Mul[base, sumRates(EmployeeInsurance, ords[SolveIterations + 1])],
      LAMBDA empIns :
  Let(F64Add[F64Add[F64[PersonalDeduction],
                    F64Mul[F64[m.dependents], F64[DependentDeduction]]], empIns],
      LAMBDA deductions :
  Let(max(Zero, F64Sub[gross, deductions]), LAMBDA taxable :
  Let(calculateTax(taxable), LAMBDA bt :
    [target |-> IF m.mode = Gross THEN None ELSE m.income,
     gross |-> gross, base |-> base, empIns |-> empIns,
     deductions |-> deductions, taxable |-> taxable,
     breakdown |-> bt.out, tax |-> bt.total,
     net |-> F64Sub[F64Sub[gross, empIns], bt.total]]))))))

(***************************************************************************)
(* The browser page (index.tsx).                                           *)
(***************************************************************************)
PERSONAL_DEDUCTION == 11000000

DEPENDENT_DEDUCTION == 4400000

INSURANCE_CAP == 36000000

EMPLOYEE_INSURANCE ==
  [BHXH |-> F64Lit[8, 100], BHYT |-> F64Lit[15, 1000], BHTN |-> F64Lit[1, 100]]

EMPLOYER_INSURANCE ==
  [BHXH |-> F64Lit[175, 1000], BHYT |-> F64Lit[3, 100], BHTN |-> F64Lit[1, 100]]

TAX_BRACKETS ==
  << [limit |-> F64[5000000],  rate |-> F64Lit[5, 100]],
     [limit |-> F64[5000000],  rate |-> F64Lit[1, 10]],
     [limit |-> F64[8000000],  rate |-> F64Lit[15, 100]],
     [limit |-> F64[14000000], rate |-> F64Lit[2, 10]],
     [limit |-> F64[20000000], rate |-> F64Lit[25, 100]],
     [limit |-> F64[28000000], rate |-> F64Lit[3, 10]],
     [limit |-> Infinity,      rate |-> F64Lit[35, 100]] >>

\* Object.values lists string keys in insertion order
ObjectValues == <<"BHXH", "BHYT", "BHTN">>

toMonthlyTS(value, period) == IF period = Annual THEN F64DivInt[value, 12] ELSE value

\* reduce((a, b) => a + b, 0) over the values from the i-th on
RECURSIVE reduceAdd(_, _, _, _)
reduceAdd(rates, keys, i, a) ==
  IF i > Len(keys) THEN a
  ELSE Let(F64Add[a, rates[keys[i]]], LAMBDA a1 : reduceAdd(rates, keys, i + 1, a1))

sumRatesTS(rates) == reduceAdd(rates, ObjectValues, 1, Zero)

MathMin(a, b) == IF F64Lt(b, a) THEN b ELSE a

MathMax(a, b) == IF F64Lt(a, b) THEN b ELSE a

clampInsuranceBaseTS(gross, enabled) ==
  IF enabled THEN MathMin(gross, F64[INSURANCE_CAP]) ELSE Zero

\* one pass of the body of calculateTaxBreakdown's loop
calculateTaxBreakdownBody(st, bracket) ==
  Let(MathMin(bracket.limit, st.remaining), LAMBDA applied :
  Let(F64Mul[applied, bracket.rate], LAMBDA tax :
    [breakdown |-> Append(st.breakdown,
                          [rate |-> bracket.rate, taxable |-> applied, tax |-> tax]),
     totalTax  |-> F64Add[st.totalTax, tax],
     remaining |-> F64Sub[st.remaining, applied]]))

RECURSIVE calculateTaxBreakdownLoop(_, _)
calculateTaxBreakdownLoop(i, st) ==
  IF i > Len(TAX_BRACKETS) \/ F64Le(st.remaining, Zero) THEN st
  ELSE Let(calculateTaxBreakdownBody(st, TAX_BRACKETS[i]),
           LAMBDA st1 : calculateTaxBreakdownLoop(i + 1, st1))

\* breakdown and totalTax are what calculateTaxBreakdown returns; remaining
\* is its local variable as the loop left it
calculateTaxBreakdown(taxableIncome) ==
  calculateTaxBreakdownLoop(1, [breakdown |-> <<>>, totalTax |-> Zero,
                                remaining |-> taxableIncome])

solveBodyTS(gross, targetNet, dependents, insuranceEnabled) ==
  Let(clampInsuranceBaseTS(gross, insuranceEnabled), LAMBDA insuranceBase :
  Let(F64Mul[insuranceBase, sumRatesTS(EMPLOYEE_INSURANCE)], LAMBDA insurance :
  Let(F64Add[F64Add[F64[PERSONAL_DEDUCTION],
                    F64Mul[F64[dependents], F64[DEPENDENT_DEDUCTION]]], insurance],
      LAMBDA deductions :
  Let(MathMax(Zero, F64Sub[gross, deductions]), LAMBDA taxable :
  Let(calculateTaxBreakdown(taxable).totalTax, LAMBDA totalTax :
  Let(F64Sub[F64Sub[gross, insurance], totalTax], LAMBDA net :
    F64Add[gross, F64Sub[targetNet, net]]))))))

RECURSIVE solveLoopTS(_, _, _, _, _)
solveLoopTS(gross, targetNet, dependents, insuranceEnabled, i) ==
  IF i >= 20 THEN gross
  ELSE Let(solveBodyTS(gross, targetNet, dependents, insuranceEnabled),
           LAMBDA next : solveLoopTS(next, targetNet, dependents, insuranceEnabled, i + 1))

solveGrossFromNetTS(targetNet, dependents, insuranceEnabled) ==
  MathMax(Zero, solveLoopTS(targetNet, targetNet, dependents, insuranceEnabled, 0))

\* useMemo(() => {...}) of HomePage; p holds the five pieces of page state.
\* target is the amount handed to solveGrossFromNet (None in gross mode).
HomePageData(p) ==
  Let(IF p.salaryMode = Gross THEN p.income
      ELSE solveGrossFromNetTS(p.income, p.dependents, p.insuranceEnabled),
      LAMBDA grossBase :
  Let(toMonthlyTS(grossBase, p.period), LAMBDA grossMonthly :
  Let(clampInsuranceBaseTS(grossMonthly, p.insuranceEnabled), LAMBDA insuranceBase :
  Let(F64Mul[insuranceBase, sumRatesTS(EMPLOYEE_INSURANCE)], LAMBDA employeeInsurance :
  Let(F64Mul[insuranceBase, sumRatesTS(EMPLOYER_INSURANCE)], LAMBDA employerInsurance :
  Let(F64Mul[F64[p.dependents], F64[DEPENDENT_DEDUCTION]], LAMBDA dependentDeduction :
  Let(F64Add[F64Add[F64[PERSONAL_DEDUCTION], dependentDeduction], employeeInsurance],
      LAMBDA totalDeductions :
  Let(MathMax(Zero, F64Sub[grossMonthly, totalDeductions]), LAMBDA taxableIncome :
  Let(calculateTaxBreakdown(taxableIncome), LAMBDA bt :
    [target |-> IF p.salaryMode = Gross THEN None ELSE p.income,
     grossMonthly |-> grossMonthly, insuranceBase |-> insuranceBase,
     employeeInsurance |-> employeeInsurance,
     employerInsurance |-> employerInsurance,
     personalDeduction |-> F64[PERSONAL_DEDUCTION],
     dependentDeduction |-> dependentDeduction,
     totalDeductions |-> totalDeductions, taxableIncome |-> taxableIncome,
     breakdown |-> bt.breakdown, totalTax |-> bt.totalTax,
     netMonthly |-> F64Sub[F64Sub[grossMonthly, employeeInsurance], bt.totalTax],
     effectiveTaxRate |-> IF IsZero(grossMonthly) THEN Zero
                          ELSE F64Div[bt.totalTax, grossMonthly],
     totalLaborCost |-> F64Add[grossMonthly, employerInsurance]])))))))))

(***************************************************************************)
(* TUI MODEL (tui.go): the steps of the wizard and its text field.         *)
(***************************************************************************)
stepMode == 0

stepPeriod == 1

stepIncome == 2

stepDependents == 3

stepInsurance == 4

stepResult == 5

\* ti.CharLimit
CharLimit == 20

Digits == [c \in {"0", "1", "2", "3", "4", "5", "6", "7", "8", "9"} |->
             CASE c = "0" -> 0 [] c = "1" -> 1 [] c = "2" -> 2 [] c = "3" -> 3
               [] c = "4" -> 4 [] c = "5" -> 5 [] c = "6" -> 6 [] c = "7" -> 7
               [] c = "8" -> 8 [] c = "9" -> 9]

\* a text is a sequence of characters; the field holds the texts it received,
\* one after the other, cut at CharLimit characters
RECURSIVE Concat(_, _)
Concat(texts, i) == IF i > Len(texts) THEN <<>> ELSE texts[i] \o Concat(texts, i + 1)

inputValue(texts) ==
  Let(Concat(texts, 1),
      LAMBDA v : IF Len(v) > CharLimit THEN SubSeq(v, 1, CharLimit) ELSE v)

\* the text without its sign
Unsigned(v) == IF v # <<>> /\ v[1] \in {"-", "+"} THEN Tail(v) ELSE v

\* an optional sign and one decimal digit or more
IsDecimal(v) ==
  /\ Unsigned(v) # <<>>
  /\ \A i \in 1..Len(Unsigned(v)) : Unsigned(v)[i] \in DOMAIN Digits

\* the number the digits ds write, from digit i on, n the number so far
NFromDigits[ds \in Seq(DOMAIN Digits), i \in Nat, n \in Limbs] ==
  IF i > Len(ds) THEN n
  ELSE NFromDigits[ds, i + 1, NAdd[NMulSmall[n, 10], NFromInt[Digits[ds[i]]]]]

\* m.income, _ = strconv.ParseFloat(v, 64): the binary64 number nearest to
\* the decimal, and 0 when v is no number
ParseFloat(v) ==
  IF ~IsDecimal(v) THEN Zero
  ELSE F64Round[IF v[1] = "-" THEN -1 ELSE 1, NFromDigits[Unsigned(v), 1, <<>>], 0, FALSE]

IntFromDigits[ds \in Seq(DOMAIN Digits), i \in Nat, n \in Nat] ==
  IF i > Len(ds) THEN n ELSE IntFromDigits[ds, i + 1, 10 * n + Digits[ds[i]]]

\* m.dependents, _ = strconv.Atoi(v): the integer, and 0 when v is none
Atoi(v) ==
  IF ~IsDecimal(v) THEN 0
  ELSE IF v[1] = "-" THEN -IntFromDigits[Unsigned(v), 1, 0]
  ELSE IntFromDigits[Unsigned(v), 1, 0]

\* fmt.Sprintf("%.0f", x): the sign and the whole number nearest to x, ties
\* to even
Sprintf0(x) ==
  IF IsZero(x) THEN [neg |-> FALSE, int |-> <<>>]
  ELSE IF x.e >= 0 THEN [neg |-> x.s < 0, int |-> NShl[x.m, x.e]]
  ELSE Let(NShr[x.m, -x.e], LAMBDA q :
       Let(NCmp[NMulSmall[NSub[x.m, NShl[q, -x.e]], 2], NShl[<<1>>, -x.e]], LAMBDA c :
         [neg |-> x.s < 0,
          int |-> IF c > 0 \/ (c = 0 /\ NOdd(q)) THEN NAdd[q, <<1>>] ELSE q]))

(***************************************************************************)
(* STATE.  mode, period, income, dependents and insurance are the inputs   *)
(* of one calculation: the fields of the wizard's model and, under the     *)
(* names salaryMode and insuranceEnabled, the state of the page.  view is  *)
(* what resultView computed from them and data what the page's useMemo     *)
(* computed; taxable is an argument of calculateTax, tax and taxTS what    *)
(* calculateTax and calculateTaxBreakdown returned for it.  step and input  *)
(* are the wizard's step and the texts its input field received, csv the   *)
(* rows exportCSV wrote and key the last message Update handled.           *)
(***************************************************************************)
VARIABLES pc, mode, period, income, dependents, insurance, view, data,
          taxable, tax, taxTS, step, input, csv, key

vars == <<pc, mode, period, income, dependents, insurance, view, data,
          taxable, tax, taxTS, step, input, csv, key>>

\* the wizard's screen state, which the calculations alone leave as it is
wizard == <<step, input, csv, key>>

inputs == <<mode, period, income, dependents, insurance>>

\* the wizard's model
m == [mode |-> mode, period |-> period, income |-> income,
      dependents |-> dependents, insurance |-> insurance]

\* the page's state
page == [salaryMode |-> mode, period |-> period, income |-> income,
         dependents |-> dependents, insuranceEnabled |-> insurance]

(***************************************************************************)
(* Bounds of the exploration.                                              *)
(***************************************************************************)
MaxDependents == 1

MaxTaxSteps == 36

MaxGrossSteps == 50

MaxJump == 2

MaxInserts == 1

\* two key orders of the three rates, one for each sum they can add up to:
\* (0.08 + 0.015) + 0.01 = 0.105 and (0.015 + 0.01) + 0.08 = 0.10500000000000001
KeyOrders == { <<"BHXH", "BHYT", "BHTN">>, <<"BHYT", "BHTN", "BHXH">> }

\* the solver's calls visit the keys in one order, resultView's own call in
\* another
Schedules ==
  { [j \in 1..(SolveIterations + 1) |-> IF j <= SolveIterations THEN a ELSE b] :
      a \in KeyOrders, b \in KeyOrders }

Million == F64[1000000]

\* incomes typed into the wizard or the form, VND
Incomes ==
  { F64[-1000000], Zero, F64[20000000], F64[36000000], F64[240000000],
    F64[2000000000], F64Mul[F64[4000], Million] }

\* the binary64 number after x > 0, x not the last of its binade
F64NextUp(x) == [x EXCEPT !.m = NAdd[x.m, <<1>>]]

\* gross salaries, VND: a grid across the insurance cap and every bracket,
\* the cap's neighbours, 29,270,296 with the next binary64 number and the
\* next whole amount, and two amounts around 10^9
GrossSamples ==
  { F64[2000000 * k] : k \in 0..MaxGrossSteps }
  \cup { F64[35999999], F64[36000001],
         F64[29270296], F64NextUp(F64[29270296]), F64[29270297],
         F64[999999999], F64[1000000000] }

\* the place of each gross salary among the samples, in ascending order
GrossRank ==
  [g \in GrossSamples |-> Cardinality({h \in GrossSamples : F64Lt(h, g)})]

\* taxable incomes, VND: a grid across every bracket, two negative amounts,
\* the taxable incomes of 20,000,000 and 50,000,000 gross, an amount with a
\* fraction, and 2e18
Taxables ==
  { F64[2500000 * k] : k \in (-2)..MaxTaxSteps }
  \cup { F64[6900000], F64[30200000], F64Lit[69000003, 10],
         F64Mul[F64[2], E18] }

Idle == /\ taxable = Zero
        /\ tax = None
        /\ taxTS = None

\* the wizard on its result step, nothing typed, nothing exported
OnResult == /\ step = stepResult
            /\ input = <<>>
            /\ csv = None
            /\ key = None

(***************************************************************************)
(* Spec: one calculation by both programs.  The inputs are drawn, the page *)
(* computes data, the wizard's result screen computes view.                *)
(***************************************************************************)
Init ==
  /\ pc = "input"
  /\ mode \in {Gross, Net}
  /\ period \in {Monthly, Annual}
  /\ income \in Incomes
  /\ dependents \in 0..MaxDependents
  /\ insurance \in BOOLEAN
  /\ view = None
  /\ data = None
  /\ Idle
  /\ OnResult

UseMemoData ==
  /\ pc = "input"
  /\ data' = HomePageData(page)
  /\ pc' = "page"
  /\ UNCHANGED <<inputs, view, taxable, tax, taxTS, wizard>>

ResultView ==
  /\ pc = "page"
  /\ \E ords \in Schedules : view' = resultView(m, ords)
  /\ pc' = "done"
  /\ UNCHANGED <<inputs, data, taxable, tax, taxTS, wizard>>

Next == UseMemoData \/ ResultView

Spec == Init /\ [][Next]_vars

(***************************************************************************)
(* SpecTax: the bracket loop alone.  A taxable income is drawn and handed  *)
(* to calculateTax, then to calculateTaxBreakdown.                         *)
(***************************************************************************)
InitTax ==
  /\ pc = "tax"
  /\ mode = Gross
  /\ period = Monthly
  /\ income = Zero
  /\ dependents = 0
  /\ insurance = TRUE
  /\ view = None
  /\ data = None
  /\ taxable \in Taxables
  /\ tax = None
  /\ taxTS = None
  /\ OnResult

CalculateTax ==
  /\ pc = "tax"
  /\ tax' = calculateTax(taxable)
  /\ pc' = "go"
  /\ UNCHANGED <<inputs, view, data, taxable, taxTS, wizard>>

CalculateTaxBreakdown ==
  /\ pc = "go"
  /\ taxTS' = calculateTaxBreakdown(taxable)
  /\ pc' = "ts"
  /\ UNCHANGED <<inputs, view, data, taxable, tax, wizard>>

NextTax == CalculateTax \/ CalculateTaxBreakdown

SpecTax == InitTax /\ [][NextTax]_vars

(***************************************************************************)
(* SpecForward: the forward projection of one gross salary after another.  *)
(* The page opens on its default income in gross mode, per month; each     *)
(* setIncome is followed by the useMemo, and view is the result screen of  *)
(* a run of the wizard with the same inputs.  The income moves at most     *)
(* MaxJump places up or down the samples.                                  *)
(***************************************************************************)
InitForward ==
  /\ pc = "form"
  /\ mode = Gross
  /\ period = Monthly
  /\ income = F64[20000000]
  /\ dependents \in 0..MaxDependents
  /\ insurance \in BOOLEAN
  /\ view \in { resultView(m, [j \in 1..(SolveIterations + 1) |-> ord]) :
                 ord \in KeyOrders }
  /\ data = HomePageData(page)
  /\ Idle
  /\ OnResult

SetIncome ==
  /\ pc = "form"
  /\ \E g \in GrossSamples, ord \in KeyOrders :
       /\ g # income
       /\ GrossRank[g] - GrossRank[income] \in (-MaxJump)..MaxJump
       /\ income' = g
       /\ data' = HomePageData([page EXCEPT !.income = g])
       /\ view' = resultView([m EXCEPT !.income = g],
                              [j \in 1..(SolveIterations + 1) |-> ord])
  /\ UNCHANGED <<pc, mode, period, dependents, insurance, taxable, tax, taxTS, wizard>>

NextForward == SetIncome

SpecForward == InitForward /\ [][NextForward]_vars

(***************************************************************************)
(* SpecWizard: the terminal wizard, one message after another.  Every      *)
(* action is one Update followed by the View that renders its model: view  *)
(* holds the figures of the result screen and None on the other screens.   *)
(* One render's calls of sumRates visit the keys in one order.  The input  *)
(* field receives at most MaxInserts texts on each step.                   *)
(***************************************************************************)
\* texts typed or pasted into the field on the income step and on the
\* dependents step
IncomeTexts == { <<"3", "6", "0", "0", "0", "0", "0", "0">>, <<"x">> }

DependentTexts == { <<"1">>, <<"x">> }

RenderOrders == { [j \in 1..(SolveIterations + 1) |-> ord] : ord \in KeyOrders }

\* initialModel
InitWizard ==
  /\ pc = "wizard"
  /\ step = stepMode
  /\ mode = Gross
  /\ period = Monthly
  /\ income = Zero
  /\ dependents = 0
  /\ insurance = TRUE
  /\ input = <<>>
  /\ csv = None
  /\ key = None
  /\ view = None
  /\ data = None
  /\ Idle

\* View, after an Update that leaves the wizard on step st with the model mm
View(st, mm) ==
  IF st = stepResult
  THEN \E ords \in RenderOrders : view' = resultView(mm, ords)
  ELSE view' = None

\* "ctrl+c", "q"
KeyQuit ==
  /\ pc = "wizard"
  /\ key' = "q"
  /\ pc' = "quit"
  /\ View(step, m)
  /\ UNCHANGED <<inputs, step, input, csv, data, taxable, tax, taxTS>>

\* "up", "down": toggle
KeyUpDown ==
  /\ pc = "wizard"
  /\ key' \in {"up", "down"}
  /\ mode' = IF step = stepMode THEN (IF mode = Gross THEN Net ELSE Gross) ELSE mode
  /\ period' = IF step = stepPeriod
               THEN (IF period = Monthly THEN Annual ELSE Monthly) ELSE period
  /\ insurance' = IF step = stepInsurance THEN ~insurance ELSE insurance
  /\ View(step, [m EXCEPT !.mode = mode', !.period = period', !.insurance = insurance'])
  /\ UNCHANGED <<pc, income, dependents, step, input, csv, data, taxable, tax, taxTS>>

\* exportCSV
exportCSV(mm) == << <<"Gross", Sprintf0(mm.income)>> >>

\* the step after st that wraps from the last step to the first
nextStep_wrap(st) == (st + 1) % (stepResult + 1)

\* the step next leaves the wizard on
nextStep(st) == IF st = stepResult THEN st ELSE st + 1

\* "enter": next
KeyEnter ==
  /\ pc = "wizard"
  /\ key' = "enter"
  /\ step' = nextStep(step)
  /\ input' = IF step \in {stepPeriod, stepIncome} THEN <<>> ELSE input
  /\ income' = IF step = stepIncome THEN ParseFloat(inputValue(input)) ELSE income
  /\ dependents' = IF step = stepDependents THEN Atoi(inputValue(input)) ELSE dependents
  /\ csv' = IF step = stepResult THEN exportCSV(m) ELSE csv
  /\ pc' = IF step = stepResult THEN "quit" ELSE pc
  /\ View(step', [m EXCEPT !.income = income', !.dependents = dependents'])
  /\ UNCHANGED <<mode, period, insurance, data, taxable, tax, taxTS>>

\* any other key message: the field takes its text on the income and the
\* dependents steps
KeyText ==
  /\ pc = "wizard"
  /\ key' = "text"
  /\ \/ /\ step = stepIncome
        /\ Len(input) < MaxInserts
        /\ \E t \in IncomeTexts : input' = Append(input, t)
     \/ /\ step = stepDependents
        /\ Len(input) < MaxInserts
        /\ \E t \in DependentTexts : input' = Append(input, t)
     \/ /\ step \notin {stepIncome, stepDependents}
        /\ input' = input
  /\ View(step, m)
  /\ UNCHANGED <<pc, inputs, step, csv, data, taxable, tax, taxTS>>

\* a message that is no key message
OtherMsg ==
  /\ pc = "wizard"
  /\ key' = "other"
  /\ View(step, m)
  /\ UNCHANGED <<pc, inputs, step, input, csv, data, taxable, tax, taxTS>>

NextWizard == KeyQuit \/ KeyUpDown \/ KeyEnter \/ KeyText \/ OtherMsg

SpecWizard == InitWizard /\ [][NextWizard]_vars

(***************************************************************************)
(* What the claims speak of.                                               *)
(***************************************************************************)
F64Abs(x) == [x EXCEPT !.s = 1]

\* |a - b| <= 1
Within1(a, b) == F64Le(F64Abs(F64Sub[a, b]), F64[1])

\* x is a whole number
IsWhole(x) ==
  \/ IsZero(x)
  \/ x.e >= 0
  \/ NShl[NShr[x.m, -x.e], -x.e] = x.m

\* the binary64 sum, in the order of the lines, of the field f of the lines
\* from the i-th on, added to acc
RECURSIVE SumFrom(_, _, _, _)
SumFrom(lines, f, i, acc) ==
  IF i > Len(lines) THEN acc
  ELSE SumFrom(lines, f, i + 1, F64Add[acc, lines[i][f]])

SumField(lines, f) == SumFrom(lines, f, 1, Zero)

\* the binary64 sum of taxable * rate over the lines from the i-th on
RECURSIVE SumProductFrom(_, _, _, _, _)
SumProductFrom(lines, f, g, i, acc) ==
  IF i > Len(lines) THEN acc
  ELSE SumProductFrom(lines, f, g, i + 1, F64Add[acc, F64Mul[lines[i][f], lines[i][g]]])

SumProduct(lines, f, g) == SumProductFrom(lines, f, g, 1, Zero)

(***************************************************************************)
(* C1.  Round trip of the net-to-gross solver.                             *)
(***************************************************************************)
\* C1 as stated: for every targetNet >= 0 the net projected from
\* solveGrossFromNet(targetNet, d, ins) is within 1 VND of targetNet.  In net
\* mode the wizard projects the solver's gross whatever the period; the page
\* does when the period is monthly.
C1_RoundTrip ==
  (pc = "done" /\ mode = Net /\ F64Le(Zero, income)) =>
     /\ Within1(view.net, income)
     /\ period = Monthly => Within1(data.netMonthly, income)

\* C1 amended: for every targetNet from 0 to 2,000,000,000 VND the net
\* projected from the solver's gross is within 1 VND of targetNet.
C1_RoundTripTo2e9 ==
  (pc = "done" /\ mode = Net /\ F64Le(Zero, income) /\ F64Le(income, F64[2000000000])) =>
     /\ Within1(view.net, income)
     /\ period = Monthly => Within1(data.netMonthly, income)

C1_Witness ==
  /\ pc = "done" /\ mode = Net /\ period = Monthly /\ insurance
  /\ income = F64[2000000000]
  /\ F64Lt(income, view.gross)
  /\ Within1(view.net, income)
  /\ Within1(data.netMonthly, income)

(***************************************************************************)
(* C2.  The solver's result is clamped.                                    *)
(***************************************************************************)
\* C2: whatever the targetNet, negative ones included, the gross that
\* solveGrossFromNet returns is >= 0.
C2_NonNegative ==
  (pc = "done" /\ mode = Net) =>
     /\ F64Le(Zero, view.gross)
     /\ F64Le(Zero, data.grossMonthly)

(***************************************************************************)
(* C3.  The period is normalised before the solve.                         *)
(***************************************************************************)
\* C3: for every income >= 0, in net mode the target handed to
\* solveGrossFromNet is toMonthly(income, period); in gross mode the gross per
\* month is toMonthly(income, period).
C3_NormalisedFirst ==
  (pc = "done" /\ F64Le(Zero, income)) =>
     IF mode = Net
     THEN /\ view.target = toMonthly(income, period)
          /\ data.target = toMonthlyTS(income, period)
     ELSE /\ view.gross = toMonthly(income, period)
          /\ data.grossMonthly = toMonthlyTS(income, period)

(***************************************************************************)
(* C4.  The wizard and the page compute the same.                          *)
(***************************************************************************)
\* C4: from the same inputs, the income >= 0, resultView and the page's
\* useMemo compute the same gross per month, the same total tax and the same
\* net per month.
C4_SameCalculation ==
  (pc = "done" /\ F64Le(Zero, income)) =>
     /\ view.gross = data.grossMonthly
     /\ view.tax = data.totalTax
     /\ view.net = data.netMonthly

(***************************************************************************)
(* C5.  The brackets partition the taxable income.                         *)
(***************************************************************************)
\* C5: for every taxable income >= 0 the taxable amounts of the lines add up
\* to it and the loop ends with nothing remaining.
C5_ExactPartition ==
  /\ (pc \in {"go", "ts"} /\ F64Le(Zero, taxable)) =>
        /\ SumField(tax.out, "Taxable") = taxable
        /\ IsZero(tax.remain)
  /\ (pc = "ts" /\ F64Le(Zero, taxable)) =>
        /\ SumField(taxTS.breakdown, "taxable") = taxable
        /\ IsZero(taxTS.remaining)

(***************************************************************************)
(* C6.  The net never decreases as the gross increases.                    *)
(***************************************************************************)
\* C6 as stated: with the dependents and the insurance flag fixed, for any
\* gross2 > gross1 >= 0 the net of gross2 is at least the net of gross1.
C6_Monotone ==
  [][(F64Le(Zero, income) /\ F64Lt(income, income')) =>
        /\ F64Le(view.net, view'.net)
        /\ F64Le(data.netMonthly, data'.netMonthly)]_vars

\* C6 amended: with the dependents and the insurance flag fixed, for any two
\* whole numbers of VND gross2 > gross1 >= 0 up to 1,000,000,000 the net of
\* gross2 is at least the net of gross1, across the insurance cap and every
\* bracket boundary.
C6_MonotoneWhole ==
  [][(/\ F64Le(Zero, income) /\ F64Lt(income, income')
      /\ F64Le(income', F64[1000000000])
      /\ IsWhole(income) /\ IsWhole(income')) =>
        /\ F64Le(view.net, view'.net)
        /\ F64Le(data.netMonthly, data'.netMonthly)]_vars

C6_Witness ==
  /\ pc = "form" /\ insurance /\ dependents = 0
  /\ income = F64[36000001]
  /\ F64Lt(F64[17460000], view.net)
  /\ F64Lt(F64[17460000], data.netMonthly)

(***************************************************************************)
(* C7.  The insurance base.                                                *)
(***************************************************************************)
\* C7: the insurance base is 0 with insurance disabled; with insurance
\* enabled it is 36,000,000 for every gross per month above 36,000,000 and
\* the gross per month itself for every gross per month up to 36,000,000.
C7_InsuranceBase ==
  /\ ~insurance => (view.base = Zero /\ data.insuranceBase = Zero)
  /\ (insurance /\ F64Lt(F64[36000000], view.gross)) => view.base = F64[36000000]
  /\ (insurance /\ F64Le(view.gross, F64[36000000])) => view.base = view.gross
  /\ (insurance /\ F64Lt(F64[36000000], data.grossMonthly)) =>
        data.insuranceBase = F64[36000000]
  /\ (insurance /\ F64Le(data.grossMonthly, F64[36000000])) =>
        data.insuranceBase = data.grossMonthly

C7_Witness ==
  /\ pc = "form" /\ insurance
  /\ income = F64[36000001]
  /\ view.gross = income
  /\ view.base = F64[36000000]
  /\ data.insuranceBase = F64[36000000]

(***************************************************************************)
(* C8.  20,000,000 gross per month, no dependents, insurance enabled.      *)
(***************************************************************************)
\* C8: for 20,000,000 gross per month, no dependents and insurance enabled,
\* the employee's insurance is 2,100,000, the deductions 13,100,000, the
\* taxable income 6,900,000, the breakdown the two lines 5,000,000 at 5% =
\* 250,000 and 1,900,000 at 10% = 190,000, the tax 440,000 and the net
\* 17,460,000.
C8_Scenario ==
  (/\ mode = Gross /\ period = Monthly /\ income = F64[20000000]
   /\ dependents = 0 /\ insurance /\ pc = "form") =>
     /\ view.gross = F64[20000000]
     /\ view.empIns = F64[2100000]
     /\ view.deductions = F64[13100000]
     /\ view.taxable = F64[6900000]
     /\ view.breakdown =
          << [Rate |-> F64Lit[5, 100],  Taxable |-> F64[5000000], Tax |-> F64[250000]],
             [Rate |-> F64Lit[10, 100], Taxable |-> F64[1900000], Tax |-> F64[190000]] >>
     /\ view.tax = F64[440000]
     /\ view.net = F64[17460000]
     /\ data.employeeInsurance = F64[2100000]
     /\ data.totalDeductions = F64[13100000]
     /\ data.taxableIncome = F64[6900000]
     /\ data.breakdown =
          << [rate |-> F64Lit[5, 100],  taxable |-> F64[5000000], tax |-> F64[250000]],
             [rate |-> F64Lit[10, 100], taxable |-> F64[1900000], tax |-> F64[190000]] >>
     /\ data.totalTax = F64[440000]
     /\ data.netMonthly = F64[17460000]

C8_Witness ==
  /\ pc = "form" /\ income = F64[20000000] /\ dependents = 0 /\ insurance
  /\ Len(view.breakdown) = 2
  /\ view.net = F64[17460000]

(***************************************************************************)
(* C9.  Nothing to tax.                                                    *)
(***************************************************************************)
\* C9: for every taxable income <= 0 calculateTax returns no line and a
\* total of 0.
C9_NothingToTax ==
  /\ (pc \in {"go", "ts"} /\ F64Le(taxable, Zero)) =>
        (tax.out = <<>> /\ tax.total = Zero)
  /\ (pc = "ts" /\ F64Le(taxable, Zero)) =>
        (taxTS.breakdown = <<>> /\ taxTS.totalTax = Zero)

C9_Witness ==
  /\ pc = "ts"
  /\ taxable = F64[-5000000]
  /\ tax.out = <<>>
  /\ taxTS.breakdown = <<>>

(***************************************************************************)
(* C10.  The total is the sum of the lines.                                *)
(***************************************************************************)
\* C10: for every taxable income >= 0 the total tax is the sum of the lines'
\* taxes, added in the order of the lines, every line's tax is its taxable
\* amount times its rate, and so the total is the sum of taxable * rate.
C10_TotalIsSum ==
  /\ (pc \in {"go", "ts"} /\ F64Le(Zero, taxable)) =>
        /\ tax.total = SumField(tax.out, "Tax")
        /\ \A i \in 1..Len(tax.out) :
              tax.out[i].Tax = F64Mul[tax.out[i].Taxable, tax.out[i].Rate]
        /\ tax.total = SumProduct(tax.out, "Taxable", "Rate")
  /\ (pc = "ts" /\ F64Le(Zero, taxable)) =>
        /\ taxTS.totalTax = SumField(taxTS.breakdown, "tax")
        /\ \A i \in 1..Len(taxTS.breakdown) :
              taxTS.breakdown[i].tax =
                 F64Mul[taxTS.breakdown[i].taxable, taxTS.breakdown[i].rate]
        /\ taxTS.totalTax = SumProduct(taxTS.breakdown, "taxable", "rate")

C10_Witness ==
  /\ pc = "ts"
  /\ taxable = F64[30200000]
  /\ Len(tax.out) = 4
  /\ Len(taxTS.breakdown) = 4
  /\ F64Lt(F64[4000000], tax.total)

(***************************************************************************)
(* C11.  The result is computed the same every time.                       *)
(***************************************************************************)
\* C11: computed again from the same inputs, whichever way sumRates visits
\* the three rates, the result screen's gross, insurance, taxable income,
\* breakdown, total tax and net are the same as before.
C11_SameEveryTime ==
  [][(step = stepResult /\ step' = stepResult /\ UNCHANGED inputs) =>
        /\ view'.gross = view.gross
        /\ view'.empIns = view.empIns
        /\ view'.taxable = view.taxable
        /\ view'.breakdown = view.breakdown
        /\ view'.tax = view.tax
        /\ view'.net = view.net]_vars

(***************************************************************************)
(* C12.  The CSV and the result screen.                                    *)
(***************************************************************************)
\* C12: the amount exportCSV writes under "Gross" is the gross per month the
\* result screen shows, whatever the mode and the period.
C12_CsvGrossIsShownGross ==
  csv # None => csv = << <<"Gross", Sprintf0(view.gross)>> >>

(***************************************************************************)
(* C13.  The steps of the wizard.                                          *)
(***************************************************************************)
\* C13: the wizard starts on the Mode step; every Enter before the Result
\* step moves it to the next step of Mode, Period, Income, Dependents,
\* Insurance, Result and no message moves it otherwise: the step never goes
\* back, never skips, and up and down leave it alone; exportCSV runs only on
\* an Enter on the Result step, and the wizard quits with it.
C13_StepsForward ==
  /\ step = stepMode
  /\ [][/\ step' \in {step, step + 1}
        /\ step' \in stepMode..stepResult
        /\ (key' = "enter" /\ step # stepResult) => step' = step + 1
        /\ key' # "enter" => step' = step
        /\ key' \in {"up", "down"} => step' = step
        /\ csv' # csv => (key' = "enter" /\ step = stepResult /\ pc' = "quit")
        /\ (key' = "enter" /\ step = stepResult) => (csv' # None /\ pc' = "quit")]_vars

C13_Witness ==
  /\ pc = "quit"
  /\ step = stepResult
  /\ key = "enter"
  /\ csv # None
  /\ income = F64[36000000]
  /\ dependents = 1

=============================================================================
